---- MODULE Spec2Model ----
(***************************************************************************)
(* TikTok-Downloader: the PyQt control thread of gui.py (update queue,     *)
(* single DownloadWorker slot, auto-update timer, ad-hoc video downloads,  *)
(* shutdown) and the profile sweep of main.py (ledger, failed-items file). *)
(*                                                                         *)
(* Spec      : the GUI process, its store (profiles.db) and its workers.   *)
(* SpecSweep : one run of download_tiktok_profile over a profile folder.   *)
(***************************************************************************)
EXTENDS Integers, Sequences, FiniteSets, TLC

(***************************************************************************)
(* Bounds of the model.                                                    *)
(***************************************************************************)
\* update requests accepted by one run of the process
MaxEnqueues == 3
\* seconds the wall clock may advance
MaxClock == 1
\* VideoDownloadWorker objects held in active_threads at once
MaxThreads == 2
\* process starts (the first one and the restarts)
MaxRuns == 2
\* auto-update timers left running without a reference to them
MaxOrphans == 2
\* calls of update_all_profiles in one run of the process
MaxSweeps == 1
\* items a profile listing may hold
MaxItems == 5

(***************************************************************************)
(* Program constants.                                                      *)
(***************************************************************************)
\* gui.py:179-188, the keys of interval_labels
Intervals == {0, 30000, 1800000, 3600000, 7200000, 21600000, 43200000, 86400000}
\* gui.py:119
RefreshPeriod == 30000
\* gui.py:67
InitialInterval == 0

GLOBAL == "global"

\* the stores a process may find in profiles.db when it starts: no table at
\* all, a table of the schema before auto_update_interval, or the current one.
\* Rows are never inserted or deleted by gui.py, so the seeded rows are the
\* rows of every later state.
Row(n) == [profile_name |-> n, last_updated |-> 0, status |-> "Updated",
           auto_update_interval |-> 0]

SeedRows ==
    { << >>,
      << Row("alice"), Row("bob"), Row("carol") >>,
      << Row("alice"), Row("bob"), Row(GLOBAL) >> }

SeedSchemas == {"none", "old", "current"}

VARIABLES
    \* ---- the process and its store
    app,                \* "off" | "running" | "closed" | "failed" | "aborted"
    ctl,                \* control thread: "idle" | "cleanup_wait" | "close_wait"
    runs,               \* process starts so far
    clock,              \* QDateTime.currentDateTime(), in seconds
    db_schema,          \* profiles.db: "none" | "old" | "current"
    db_rows,            \* profiles.db: the rows of table profiles
    \* ---- TikTokDownloaderGUI fields
    selected_interval,
    auto_update_timer,  \* the QTimer self.auto_update_timer refers to: whether
                        \* it runs, and the period in force while it does
    orphan_timers,      \* periods of running QTimers no field refers to
    refresh_table_timer,
    deferred_init,      \* QTimer.singleShot(0, _initialize_auto_update) pending
    auto_update_actions,\* interval -> checked
    profile_table,      \* rows [name, last, status]
    update_buttons,     \* profile_name -> [enabled, text, index, idx]
    update_queue,
    current_worker,     \* the DownloadWorker, or NoWorker
    url_input,          \* "" | "valid" | "invalid"
    download_button,    \* enabled
    active_threads,     \* VideoDownloadWorkers
    video_signals,      \* finished signals of VideoDownloadWorkers, queued
    pending_slot,       \* second slot of a delivered video signal
    \* ---- history of the run (observations, never read by the handlers)
    enqueued,           \* names put on update_queue, in order
    dispatched,         \* names process_queue started a worker for, in order
    completed,          \* names on_update_finished ran for, in order
    sweeps,             \* calls of update_all_profiles in this run
    closed_interval,    \* selected_interval when the previous process was
                        \* closed; -1 when there was none or it did not close
    \* ---- download_tiktok_profile (main.py)
    sw_pc, sw_videos, sw_idx, sw_existing, sw_failed_urls,
    history_file,       \* downloaded_videos.txt, one identifier per line
    sw_history0,        \* downloaded_videos.txt as the sweep found it
    failed_urls_file,   \* failed_videos.txt, one URL per line
    folder,             \* the files of the profile folder
    sw_log              \* per listed item, what the commands did

guiVars == << app, ctl, runs, clock, db_schema, db_rows, selected_interval,
              auto_update_timer, orphan_timers, refresh_table_timer,
              deferred_init, auto_update_actions, profile_table,
              update_buttons, update_queue, current_worker, url_input,
              download_button, active_threads, video_signals, pending_slot,
              enqueued, dispatched, completed, sweeps, closed_interval >>

sweepVars == << sw_pc, sw_videos, sw_idx, sw_existing, sw_failed_urls,
                history_file, sw_history0, failed_urls_file, folder, sw_log >>

vars == << guiVars, sweepVars >>


(***************************************************************************)
(* Values.                                                                 *)
(***************************************************************************)
\* self.current_worker = None
NoWorker == [profile_name |-> "", state |-> "None", last_updated |-> 0]
\* self.auto_update_timer = None
NoTimer == [exists |-> FALSE, active |-> FALSE, period |-> 0]
\* QPushButton("Update")
UpdateText == [label |-> "Update", index |-> 0]
\* f"In queue ({index})"
InQueueText(index) == [label |-> "In queue", index |-> index]

Names(rows) == { rows[i].profile_name : i \in DOMAIN rows }

(***************************************************************************)
(* gui.py helpers.                                                         *)
(***************************************************************************)
\* relative_time: the text shown in the "Last Update" column; timestamps of
\* the model are always valid QDateTimes
relative_time(timestamp, now) ==
    LET secs_diff == now - timestamp IN
    IF secs_diff < 60 THEN
        IF secs_diff = 0 THEN [n |-> 0, unit |-> "Just now"]
        ELSE [n |-> secs_diff, unit |-> IF secs_diff > 1 THEN "seconds ago" ELSE "second ago"]
    ELSE IF secs_diff < 3600 THEN
        [n |-> secs_diff \div 60,
         unit |-> IF secs_diff \div 60 > 1 THEN "minutes ago" ELSE "minute ago"]
    ELSE IF secs_diff < 86400 THEN
        [n |-> secs_diff \div 3600,
         unit |-> IF secs_diff \div 3600 > 1 THEN "hours ago" ELSE "hour ago"]
    ELSE [n |-> timestamp, unit |-> "yyyy-MM-dd"]

\* find_row_by_profile_name: the first row whose name cell is profile_name;
\* rows are numbered from 1 here and 0 stands for the code's -1
find_row_by_profile_name(table, profile_name) ==
    IF \E r \in DOMAIN table : table[r].name = profile_name
    THEN CHOOSE r \in DOMAIN table :
            /\ table[r].name = profile_name
            /\ \A q \in DOMAIN table : table[q].name = profile_name => r <= q
    ELSE 0

\* update_status: the status cell of the profile's row, if it has one
update_status(table, profile_name, status) ==
    LET row == find_row_by_profile_name(table, profile_name) IN
    IF row # 0 THEN [table EXCEPT ![row].status = status] ELSE table

\* UPDATE profiles SET last_updated = ?, status = ? WHERE profile_name = ?
sql_update_profile(rows, profile_name, last_updated, status) ==
    [i \in DOMAIN rows |->
        IF rows[i].profile_name = profile_name
        THEN [rows[i] EXCEPT !.last_updated = last_updated, !.status = status]
        ELSE rows[i]]

\* update_profile_table, the table part: cells 1 and 2 of the profile's row
table_update_profile(table, profile_name, last_updated, status, now) ==
    LET row == find_row_by_profile_name(table, profile_name) IN
    IF row # 0
    THEN [table EXCEPT ![row].last = relative_time(last_updated, now),
                       ![row].status = status]
    ELSE table

\* UPDATE profiles SET auto_update_interval = ? WHERE profile_name = 'global'
sql_update_interval(rows, interval) ==
    [i \in DOMAIN rows |->
        IF rows[i].profile_name = GLOBAL
        THEN [rows[i] EXCEPT !.auto_update_interval = interval]
        ELSE rows[i]]

\* SELECT auto_update_interval FROM profiles WHERE profile_name = 'global',
\* fetchone(): << >> for None, else the first matching row's value
sql_select_interval(rows) ==
    IF \E i \in DOMAIN rows : rows[i].profile_name = GLOBAL
    THEN << rows[CHOOSE i \in DOMAIN rows :
                    /\ rows[i].profile_name = GLOBAL
                    /\ \A j \in DOMAIN rows :
                          rows[j].profile_name = GLOBAL => i <= j].auto_update_interval >>
    ELSE << >>

\* check_and_migrate_db on a store that has the table: ALTER TABLE ... ADD
\* COLUMN auto_update_interval INTEGER DEFAULT 0 when the column is absent
check_and_migrate_db(schema, rows) ==
    IF schema = "old"
    THEN [i \in DOMAIN rows |-> [rows[i] EXCEPT !.auto_update_interval = 0]]
    ELSE rows

\* load_profiles: one table row and one "Update" button per store row; the
\* button's click passes idx = i + 1 for the 0-based row i, the row's number
load_profiles_table(rows, now) ==
    [i \in DOMAIN rows |->
        [name |-> rows[i].profile_name,
         last |-> relative_time(rows[i].last_updated, now),
         status |-> rows[i].status]]

button_idx(rows, profile_name) ==
    CHOOSE i \in DOMAIN rows :
        /\ rows[i].profile_name = profile_name
        /\ \A j \in DOMAIN rows : rows[j].profile_name = profile_name => j <= i

load_profiles_buttons(rows) ==
    [n \in Names(rows) |->
        [enabled |-> TRUE, text |-> UpdateText, idx |-> button_idx(rows, n)]]

(***************************************************************************)
(* set_auto_update, in parts.                                              *)
(***************************************************************************)
\* a set_auto_update that forgets to stop the timer it replaces
stop_timer_forgotten(timer) == timer

\* if self.auto_update_timer: self.auto_update_timer.stop()
stop_timer(timer) ==
    IF timer.exists THEN [timer EXCEPT !.active = FALSE, !.period = 0] ELSE timer

\* if interval > 0: self.auto_update_timer = QTimer(self); ...start(interval)
start_timer(timer, interval) ==
    IF interval > 0
    THEN [exists |-> TRUE, active |-> TRUE, period |-> interval]
    ELSE timer

\* the timer the field referred to, when the field is overwritten while that
\* timer still runs: it stays a child of the window and keeps ticking
orphaned(timer, interval) ==
    IF interval > 0 /\ timer.exists /\ timer.active
    THEN << timer.period >> ELSE << >>

\* a menu whose "Off" option is never unchecked
check_actions_off_kept(interval) == [i \in Intervals |-> i = interval \/ i = 0]

\* for action in self.auto_update_actions: action.setChecked(action.data() == interval)
check_actions(interval) == [i \in Intervals |-> i = interval]

\* set_auto_update(interval): the new values of the fields it writes
set_auto_update(interval, rows, timer, orphans) ==
    LET stopped == stop_timer(timer) IN
    [selected_interval   |-> interval,
     db_rows             |-> sql_update_interval(rows, interval),
     auto_update_timer   |-> start_timer(stopped, interval),
     orphan_timers       |-> orphans \o orphaned(stopped, interval),
     auto_update_actions |-> check_actions(interval)]

(***************************************************************************)
(* The update queue.                                                       *)
(***************************************************************************)
\* a put that loses the request
queue_put_lost(q, profile_name) == q

\* self.update_queue.put(profile_name)
queue_put(q, profile_name) == Append(q, profile_name)

\* a queue that hands out its newest entry
queue_get_newest(q) == q[Len(q)]

\* self.update_queue.get(): queue.Queue is first in, first out
queue_get(q) == Head(q)

\* a process_queue that does not look at current_worker
can_dispatch_unguarded(worker, q) == q # << >>

\* if self.current_worker is None and not self.update_queue.empty()
can_dispatch(worker, q) == worker.state = "None" /\ q # << >>

\* a process_queue that never starts a worker
process_queue_idle(q, worker, table) ==
    [update_queue |-> q, profile_table |-> table, current_worker |-> worker,
     started |-> << >>]

\* process_queue(): the new queue, worker and table, and the name a worker
\* was started for (<< >> when none was)
process_queue(q, worker, table) ==
    IF can_dispatch(worker, q)
    THEN LET profile_name == queue_get(q) IN
         [update_queue   |-> Tail(q),
          profile_table  |-> update_status(table, profile_name, "Being Updated..."),
          current_worker |-> [profile_name |-> profile_name, state |-> "running",
                              last_updated |-> 0],
          started        |-> << profile_name >>]
    ELSE [update_queue |-> q, profile_table |-> table, current_worker |-> worker,
          started |-> << >>]

\* requests pending or in flight
Outstanding(q, worker) == Len(q) + (IF worker.state = "None" THEN 0 ELSE 1)


(***************************************************************************)
(* The GUI process: initial state.                                         *)
(***************************************************************************)
storeVars == << db_schema, db_rows >>
timerVars == << selected_interval, auto_update_timer, orphan_timers,
                auto_update_actions >>
tableVars == << profile_table, update_buttons >>
queueVars == << update_queue, current_worker >>
videoVars == << url_input, download_button, active_threads, video_signals,
                pending_slot >>
historyVars == << enqueued, dispatched, completed, sweeps, closed_interval >>

SweepIdle ==
    /\ sw_pc = "idle" /\ sw_videos = << >> /\ sw_idx = 0 /\ sw_existing = {}
    /\ sw_failed_urls = << >> /\ history_file = << >> /\ sw_history0 = << >>
    /\ failed_urls_file = << >> /\ folder = {} /\ sw_log = << >>

\* no process yet; profiles.db is whatever the installation holds, and the
\* first process may start at any second
Init ==
    /\ app = "off" /\ ctl = "idle" /\ runs = 0
    /\ clock \in 0..MaxClock
    /\ db_schema \in SeedSchemas
    /\ db_rows \in SeedRows
    /\ db_schema = "none" => db_rows = << >>
    /\ selected_interval = InitialInterval
    /\ auto_update_timer = NoTimer
    /\ orphan_timers = << >>
    /\ refresh_table_timer = FALSE
    /\ deferred_init = FALSE
    /\ auto_update_actions = [i \in Intervals |-> FALSE]
    /\ profile_table = << >>
    /\ update_buttons = << >>
    /\ update_queue = << >>
    /\ current_worker = NoWorker
    /\ url_input = ""
    /\ download_button = FALSE
    /\ active_threads = << >>
    /\ video_signals = << >>
    /\ pending_slot = << >>
    /\ enqueued = << >> /\ dispatched = << >> /\ completed = << >>
    /\ sweeps = 0
    /\ closed_interval = -1
    /\ SweepIdle

\* the control thread is free to run a handler of a user action, a timer or
\* a worker's signal.  The singleShot(0) of init_ui is posted before the event
\* loop starts, so _initialize_auto_update runs before any of them.
Running == app = "running" /\ ctl = "idle" /\ ~deferred_init

(***************************************************************************)
(* main() and TikTokDownloaderGUI.__init__: init_db, init_ui (load_profiles *)
(* and the deferred _initialize_auto_update), the empty queue,             *)
(* load_auto_update_interval, start_table_refresher.  On a store without   *)
(* the table, check_and_migrate_db's ALTER TABLE raises and main() prints  *)
(* the error: the process ends before a window exists.                     *)
(***************************************************************************)
main ==
    /\ runs' = runs + 1
    /\ ctl' = "idle"
    /\ IF db_schema = "none"
       THEN /\ app' = "failed"
            /\ UNCHANGED << storeVars, timerVars, tableVars, queueVars, videoVars,
                            historyVars, refresh_table_timer, deferred_init >>
       ELSE LET rows0 == check_and_migrate_db(db_schema, db_rows)
                result == sql_select_interval(rows0)
                interval == IF result # << >> THEN result[1] ELSE InitialInterval
                s == set_auto_update(interval, rows0, NoTimer, << >>)
            IN  /\ app' = "running"
                /\ db_schema' = "current"
                /\ db_rows' = s.db_rows
                /\ selected_interval' = s.selected_interval
                /\ auto_update_timer' = s.auto_update_timer
                /\ orphan_timers' = s.orphan_timers
                /\ auto_update_actions' = s.auto_update_actions
                /\ profile_table' = load_profiles_table(rows0, clock)
                /\ update_buttons' = load_profiles_buttons(rows0)
                /\ deferred_init' = TRUE
                /\ refresh_table_timer' = TRUE
                /\ update_queue' = << >>
                /\ current_worker' = NoWorker
                /\ url_input' = ""
                /\ download_button' = FALSE
                /\ active_threads' = << >>
                /\ video_signals' = << >>
                /\ pending_slot' = << >>
                /\ enqueued' = << >> /\ dispatched' = << >> /\ completed' = << >>
                /\ sweeps' = 0
                /\ closed_interval' = IF app = "closed" THEN selected_interval ELSE -1
    /\ UNCHANGED << clock, sweepVars >>

\* the first start of the program
TikTokDownloaderGUI_init ==
    /\ app = "off"
    /\ main

\* the program is started again after it was closed or was ended by an
\* exception
restart ==
    /\ app \in {"closed", "aborted"}
    /\ runs < MaxRuns
    /\ main

\* the fields set_auto_update writes, for the handlers that call it
apply_set_auto_update(interval) ==
    LET s == set_auto_update(interval, db_rows, auto_update_timer, orphan_timers) IN
    /\ Len(s.orphan_timers) <= MaxOrphans
    /\ selected_interval' = s.selected_interval
    /\ db_rows' = s.db_rows
    /\ auto_update_timer' = s.auto_update_timer
    /\ orphan_timers' = s.orphan_timers
    /\ auto_update_actions' = s.auto_update_actions

\* _initialize_auto_update, the singleShot(0) of init_ui
initialize_auto_update ==
    /\ app = "running" /\ ctl = "idle"
    /\ deferred_init
    /\ deferred_init' = FALSE
    /\ apply_set_auto_update(selected_interval)
    /\ UNCHANGED << app, ctl, runs, clock, db_schema, refresh_table_timer, tableVars,
                    queueVars, videoVars, historyVars, sweepVars >>

\* an "Auto Update" menu option is triggered: set_auto_update(i)
auto_update_action_triggered(offered) ==
    /\ Running
    /\ \E i \in offered :
        apply_set_auto_update(i)
    /\ UNCHANGED << app, ctl, runs, clock, db_schema, refresh_table_timer,
                    deferred_init, tableVars, queueVars, videoVars, historyVars,
                    sweepVars >>

(***************************************************************************)
(* update_profile, process_queue, on_update_finished.                      *)
(***************************************************************************)
\* an update_profile that leaves the profile's button as it is
update_profile_unmarked(profile_name, index) ==
    LET p == process_queue(queue_put(update_queue, profile_name), current_worker,
                           profile_table)
    IN  /\ update_buttons' = update_buttons
        /\ update_queue' = p.update_queue
        /\ current_worker' = p.current_worker
        /\ profile_table' = p.profile_table
        /\ enqueued' = Append(enqueued, profile_name)
        /\ dispatched' = dispatched \o p.started

\* update_profile(profile_name, index)
update_profile(profile_name, index) ==
    LET buttons1 == IF profile_name \in DOMAIN update_buttons
                    THEN [update_buttons EXCEPT
                            ![profile_name].enabled = FALSE,
                            ![profile_name].text = InQueueText(index)]
                    ELSE update_buttons
        p == process_queue(queue_put(update_queue, profile_name), current_worker,
                           profile_table)
    IN  /\ update_buttons' = buttons1
        /\ update_queue' = p.update_queue
        /\ current_worker' = p.current_worker
        /\ profile_table' = p.profile_table
        /\ enqueued' = Append(enqueued, profile_name)
        /\ dispatched' = dispatched \o p.started

\* a row's "Update" button is clicked (a disabled button takes no click):
\* lambda _, name=profile_name, idx=i+1: self.update_profile(name, idx)
update_button_clicked ==
    /\ Running
    /\ Len(enqueued) < MaxEnqueues
    /\ \E n \in DOMAIN update_buttons :
        /\ update_buttons[n].enabled
        /\ update_profile(n, update_buttons[n].idx)
    /\ UNCHANGED << app, ctl, runs, clock, storeVars, timerVars, refresh_table_timer,
                    deferred_init, videoVars, completed, sweeps, closed_interval,
                    sweepVars >>

\* update_all_profiles: self.update_profile(profile[0]) passes one argument
\* to update_profile(self, profile_name, index), so the first iteration
\* raises TypeError and nothing is put on the queue; with no rows the loop
\* body never runs.  An exception leaving a slot either is printed (the
\* event loop goes on) or ends the process, by the PyQt5 version in use.
update_all_profiles ==
    /\ sweeps < MaxSweeps
    /\ sweeps' = sweeps + 1
    /\ IF db_rows = << >>
       THEN app' = app
       ELSE app' \in {"running", "aborted"}
    /\ UNCHANGED << ctl, runs, clock, storeVars, timerVars, refresh_table_timer,
                    deferred_init, tableVars, queueVars, videoVars, enqueued,
                    dispatched, completed, closed_interval, sweepVars >>

\* menu "Update All"
update_all_action_triggered ==
    /\ Running
    /\ update_all_profiles

\* a running auto-update QTimer times out
auto_update_timer_timeout ==
    /\ Running
    /\ auto_update_timer.active \/ orphan_timers # << >>
    /\ update_all_profiles

\* DownloadWorker.run, in its thread: download_tiktok_profile returns and
\* finished(profile_name, now, "Updated") is emitted, or it raises (the
\* os.replace of embed_metadata, the listing command) and nothing is emitted
DownloadWorker_run ==
    /\ app = "running"
    /\ current_worker.state = "running"
    /\ \/ /\ current_worker' = [current_worker EXCEPT !.state = "emitted",
                                                      !.last_updated = clock]
          /\ app' = app
       \/ /\ current_worker' = [current_worker EXCEPT !.state = "raised"]
          /\ app' \in {"running", "aborted"}
    /\ UNCHANGED << ctl, runs, clock, storeVars, timerVars, refresh_table_timer,
                    deferred_init, tableVars, update_queue, videoVars, historyVars,
                    sweepVars >>

\* DownloadWorker.run when download_tiktok_profile returns: the signal is
\* emitted
DownloadWorker_emit ==
    /\ DownloadWorker_run
    /\ current_worker'.state = "emitted"

\* on_update_finished(profile_name, last_updated, "Updated")
on_update_finished ==
    /\ Running
    /\ current_worker.state = "emitted"
    /\ LET profile_name == current_worker.profile_name
           last_updated == current_worker.last_updated
           table1 == table_update_profile(profile_table, profile_name, last_updated,
                                          "Updated", clock)
           p == process_queue(update_queue, NoWorker, table1)
       IN  /\ db_rows' = sql_update_profile(db_rows, profile_name, last_updated, "Updated")
           /\ update_buttons' =
                IF profile_name \in DOMAIN update_buttons
                THEN [update_buttons EXCEPT ![profile_name].enabled = TRUE,
                                            ![profile_name].text = UpdateText]
                ELSE update_buttons
           /\ update_queue' = p.update_queue
           /\ current_worker' = p.current_worker
           /\ profile_table' = p.profile_table
           /\ completed' = Append(completed, profile_name)
           /\ dispatched' = dispatched \o p.started
    /\ UNCHANGED << app, ctl, runs, clock, db_schema, timerVars, refresh_table_timer,
                    deferred_init, videoVars, enqueued, sweeps, closed_interval,
                    sweepVars >>


(***************************************************************************)
(* Ad-hoc video downloads.                                                 *)
(***************************************************************************)
\* metadata["uploader"] of a downloaded video: a profile of the store or not
Uploaders == {"alice", "dave"}

\* validate_url_input, on the class of the text: "" (empty), "valid" (one of
\* the two patterns matches the stripped text), "invalid" (neither does)
validate_url_input(text) == text = "valid"

\* the line edit's text changes (textChanged -> validate_url_input)
url_textChanged ==
    /\ Running
    /\ \E text \in {"", "valid", "invalid"} :
        /\ text # url_input
        /\ url_input' = text
        /\ download_button' = validate_url_input(text)
    /\ UNCHANGED << app, ctl, runs, clock, storeVars, timerVars, refresh_table_timer,
                    deferred_init, tableVars, queueVars, active_threads,
                    video_signals, pending_slot, historyVars, sweepVars >>

\* download_video: the "Download Video" button is clicked (the model stops
\* clicking at MaxThreads workers whose thread or signal is still around)
download_video ==
    /\ Running
    /\ download_button
    /\ Len(active_threads) + Len(video_signals) < MaxThreads
    /\ IF url_input = ""
       THEN UNCHANGED << download_button, active_threads >>
       ELSE /\ download_button' = FALSE
            /\ active_threads' = Append(active_threads, "running")
    /\ UNCHANGED << app, ctl, runs, clock, storeVars, timerVars, refresh_table_timer,
                    deferred_init, tableVars, queueVars, url_input, video_signals,
                    pending_slot, historyVars, sweepVars >>

\* a VideoDownloadWorker that writes the profile's row itself, from its thread
VideoDownloadWorker_run_writes ==
    /\ app = "running"
    /\ \E i \in DOMAIN active_threads :
        /\ active_threads[i] = "running"
        /\ active_threads' = [active_threads EXCEPT ![i] = "finished"]
        /\ \E u \in Uploaders :
            /\ db_rows' = sql_update_profile(db_rows, u, clock, "Downloaded")
            /\ profile_table' = table_update_profile(profile_table, u, clock,
                                                     "Downloaded", clock)
    /\ UNCHANGED << app, ctl, runs, clock, db_schema, timerVars, refresh_table_timer,
                    deferred_init, update_buttons, queueVars, url_input,
                    download_button, video_signals, pending_slot, historyVars,
                    sweepVars >>

\* VideoDownloadWorker.run, in its thread: metadata and the finished signal,
\* or None and no signal, or an exception of embed_metadata and no signal
VideoDownloadWorker_run ==
    /\ app = "running"
    /\ \E i \in DOMAIN active_threads :
        /\ active_threads[i] = "running"
        /\ active_threads' = [active_threads EXCEPT ![i] = "finished"]
        /\ \/ \E u \in Uploaders :
                /\ video_signals' = Append(video_signals,
                                           [uploader |-> u, last_updated |-> clock])
                /\ app' = app
           \/ /\ video_signals' = video_signals
              /\ app' = app
           \/ /\ video_signals' = video_signals
              /\ app' \in {"running", "aborted"}
    /\ UNCHANGED << ctl, runs, clock, storeVars, timerVars, refresh_table_timer,
                    deferred_init, tableVars, queueVars, url_input, download_button,
                    pending_slot, historyVars, sweepVars >>

\* on_video_download_finished, up to the wait() of cleanup_threads:
\* update_profile_table, then quit() and wait() on every active thread
on_video_download_finished ==
    /\ Running
    /\ video_signals # << >>
    /\ LET sig == Head(video_signals) IN
        /\ db_rows' = sql_update_profile(db_rows, sig.uploader, sig.last_updated,
                                         "Downloaded")
        /\ profile_table' = table_update_profile(profile_table, sig.uploader,
                                                 sig.last_updated, "Downloaded", clock)
        /\ pending_slot' = << sig >>
    /\ video_signals' = Tail(video_signals)
    /\ ctl' = "cleanup_wait"
    /\ UNCHANGED << app, runs, clock, db_schema, timerVars, refresh_table_timer,
                    deferred_init, update_buttons, queueVars, url_input,
                    download_button, active_threads, historyVars, sweepVars >>

AllFinished == \A i \in DOMAIN active_threads : active_threads[i] = "finished"

\* the rest of on_video_download_finished once every wait() has returned:
\* active_threads = [], setEnabled(True), url_input.clear() (a text change
\* when the text was not empty), then the signal's second slot,
\* update_profile_table
cleanup_threads_return ==
    /\ app = "running"
    /\ ctl = "cleanup_wait"
    /\ AllFinished
    /\ active_threads' = << >>
    /\ download_button' = IF url_input # "" THEN validate_url_input("") ELSE TRUE
    /\ url_input' = ""
    /\ LET sig == pending_slot[1] IN
        /\ db_rows' = sql_update_profile(db_rows, sig.uploader, sig.last_updated,
                                         "Downloaded")
        /\ profile_table' = table_update_profile(profile_table, sig.uploader,
                                                 sig.last_updated, "Downloaded", clock)
    /\ pending_slot' = << >>
    /\ ctl' = "idle"
    /\ UNCHANGED << app, runs, clock, db_schema, timerVars, refresh_table_timer,
                    deferred_init, update_buttons, queueVars, video_signals,
                    historyVars, sweepVars >>

(***************************************************************************)
(* The table refresher, the clock, closing.                                *)
(***************************************************************************)
\* the last_updated of the last store row named name
db_last_updated(rows, name) ==
    rows[CHOOSE i \in DOMAIN rows :
            /\ rows[i].profile_name = name
            /\ \A j \in DOMAIN rows : rows[j].profile_name = name => j <= i].last_updated

\* a refresh that also resets the status cell from the store
refresh_table_rows_status(table, rows, now) ==
    [r \in DOMAIN table |->
        IF table[r].name \in Names(rows)
        THEN [table[r] EXCEPT
                !.last = relative_time(db_last_updated(rows, table[r].name), now),
                !.status = "Updated"]
        ELSE table[r]]

\* refresh_table: cell 1 of the row of every profile of the store
refresh_table_rows(table, rows, now) ==
    [r \in DOMAIN table |->
        IF /\ table[r].name \in Names(rows)
           /\ find_row_by_profile_name(table, table[r].name) = r
        THEN [table[r] EXCEPT !.last = relative_time(db_last_updated(rows, table[r].name), now)]
        ELSE table[r]]

\* the 30 s refresh_table_timer times out
refresh_table ==
    /\ Running
    /\ refresh_table_timer
    /\ profile_table' = refresh_table_rows(profile_table, db_rows, clock)
    /\ UNCHANGED << app, ctl, runs, clock, storeVars, timerVars, refresh_table_timer,
                    deferred_init, update_buttons, queueVars, videoVars, historyVars,
                    sweepVars >>

\* a second passes
tick ==
    /\ clock < MaxClock
    /\ clock' = clock + 1
    /\ UNCHANGED << app, ctl, runs, storeVars, timerVars, refresh_table_timer,
                    deferred_init, tableVars, queueVars, videoVars, historyVars,
                    sweepVars >>

\* closeEvent, up to the wait() on the active threads
closeEvent ==
    /\ Running
    /\ auto_update_timer' = stop_timer(auto_update_timer)
    /\ ctl' = "close_wait"
    /\ UNCHANGED << app, runs, clock, storeVars, selected_interval, orphan_timers,
                    auto_update_actions, refresh_table_timer, deferred_init,
                    tableVars, queueVars, videoVars, historyVars, sweepVars >>

\* every wait() of closeEvent has returned: event.accept(), the window
\* closes and app.exec_() returns
closeEvent_accept ==
    /\ app = "running"
    /\ ctl = "close_wait"
    /\ AllFinished
    /\ app' = "closed"
    /\ ctl' = "idle"
    /\ UNCHANGED << runs, clock, storeVars, timerVars, refresh_table_timer,
                    deferred_init, tableVars, queueVars, videoVars, historyVars,
                    sweepVars >>

(***************************************************************************)
(* Specifications of the GUI process.  Each takes the handlers that write   *)
(* the state its claims read; the clock stands still within a behaviour     *)
(* unless tick is among them, and the program is started once unless        *)
(* restart is among them.                                                   *)
(***************************************************************************)
\* the menu options offered in Spec: "Off" and "Every 30 seconds"
RunnerIntervals == {0, 30000}

\* one run of the program: the update queue and its worker, with the sweeps,
\* the timers that trigger them, the table refresher and closing
Next ==
    \/ TikTokDownloaderGUI_init
    \/ initialize_auto_update
    \/ auto_update_action_triggered(RunnerIntervals)
    \/ update_button_clicked
    \/ update_all_action_triggered
    \/ auto_update_timer_timeout
    \/ DownloadWorker_run
    \/ on_update_finished
    \/ refresh_table
    \/ closeEvent
    \/ closeEvent_accept

Spec == Init /\ [][Next]_vars

\* the auto-update scheduler over every interval of the menu, with restarts
NextScheduler ==
    \/ TikTokDownloaderGUI_init
    \/ restart
    \/ initialize_auto_update
    \/ auto_update_action_triggered(Intervals)
    \/ update_all_action_triggered
    \/ auto_update_timer_timeout
    \/ closeEvent
    \/ closeEvent_accept

SpecScheduler == Init /\ [][NextScheduler]_vars

\* the ad-hoc video downloads beside the update queue: URL edits, Download
\* clicks, the VideoDownloadWorkers, their signals and the two slots connected
\* to them, Update clicks, the DownloadWorker and its completion
NextVideo ==
    \/ TikTokDownloaderGUI_init
    \/ initialize_auto_update
    \/ url_textChanged
    \/ download_video
    \/ VideoDownloadWorker_run
    \/ on_video_download_finished
    \/ cleanup_threads_return
    \/ update_button_clicked
    \/ DownloadWorker_run
    \/ on_update_finished

SpecVideo == Init /\ [][NextVideo]_vars

\* both kinds of worker beside the handlers of their signals, over one store
\* of three profiles
InitThreads ==
    /\ Init
    /\ clock = 0
    /\ db_schema = "current"
    /\ db_rows = << Row("alice"), Row("bob"), Row(GLOBAL) >>

SpecThreads == InitThreads /\ [][NextVideo]_vars

\* the table refresher while time passes and the update queue is served
NextRefresh ==
    \/ TikTokDownloaderGUI_init
    \/ initialize_auto_update
    \/ tick
    \/ refresh_table
    \/ update_button_clicked
    \/ DownloadWorker_run
    \/ on_update_finished

SpecRefresh == Init /\ [][NextRefresh]_vars

\* the ad-hoc downloads when every started thread runs to the end of its
\* run() and the control thread handles the events posted to it: the
\* deferred initialisation, a worker's queued signal, the return of
\* cleanup_threads' waits
NextVideoLive ==
    \/ TikTokDownloaderGUI_init
    \/ initialize_auto_update
    \/ url_textChanged
    \/ download_video
    \/ VideoDownloadWorker_run
    \/ on_video_download_finished
    \/ cleanup_threads_return

SpecVideoLive ==
    /\ Init /\ [][NextVideoLive]_vars
    /\ WF_vars(initialize_auto_update)
    /\ WF_vars(VideoDownloadWorker_run)
    /\ WF_vars(on_video_download_finished)
    /\ WF_vars(cleanup_threads_return)

\* the update queue when every DownloadWorker returns from its sweep.  The
\* worker thread runs to its emit, and the control thread handles the
\* events posted to it: the deferred initialisation, the worker's queued
\* signal, the rest of closeEvent once its waits are over.
NextLive ==
    \/ TikTokDownloaderGUI_init
    \/ initialize_auto_update
    \/ update_button_clicked
    \/ update_all_action_triggered
    \/ DownloadWorker_emit
    \/ on_update_finished
    \/ refresh_table
    \/ closeEvent
    \/ closeEvent_accept

SpecLive ==
    /\ Init /\ [][NextLive]_vars
    /\ WF_vars(initialize_auto_update)
    /\ WF_vars(DownloadWorker_emit)
    /\ WF_vars(on_update_finished)
    /\ WF_vars(closeEvent_accept)


(***************************************************************************)
(* main.py: download_tiktok_profile over one profile folder.  The outcomes *)
(* of the external commands (yt-dlp, ffmpeg) and of the filesystem are      *)
(* chosen freely at each call.                                              *)
(***************************************************************************)
\* the "url" field of the listed item whose "id" is id
url_of(id) == << "url", id >>

\* a file of the profile folder: the identifiers its name contains, the
\* 8-digit token the date pattern finds in its name ("none" when it finds
\* none), whether the name ends in .mp4, whether it is a regular file
File(ids, date, mp4, isfile) ==
    [ids |-> ids, date |-> date, mp4 |-> mp4, isfile |-> isfile]

\* is_valid_date on the token the pattern found
is_valid_date(date) == date = "valid"

\* a reconciliation that takes any regular .mp4 file naming the identifier,
\* whatever its date token
reconcile_undated(ledger, files) ==
    { ledger[k] : k \in { j \in DOMAIN ledger :
        \E f \in files : f.isfile /\ ledger[j] \in f.ids /\ f.mp4 } }

\* lines 159-181: the ledger identifiers for which the folder holds a regular
\* .mp4 file whose name contains the identifier and a valid date token
reconcile(ledger, files) ==
    { ledger[k] : k \in { j \in DOMAIN ledger :
        \E f \in files :
            /\ f.isfile /\ ledger[j] \in f.ids /\ f.mp4
            /\ f.date # "none"
            /\ is_valid_date(f.date) } }

\* get_video_info: (metadata, filename), or (None, None) on any exception
\* (command failed, bad JSON, missing uploader, id or upload_date)
get_video_info(info) == info = "ok"

\* embed_metadata(video_path, metadata): "skipped" when the file is not at
\* video_path (logged, plain return); else ffmpeg runs, its exit status is not
\* looked at, and os.replace(_meta.mp4, video_path) either replaces the file
\* ("embedded" after a clean exit, "replaced" with what a failed ffmpeg left)
\* or raises FileNotFoundError because ffmpeg wrote no _meta.mp4, or was not
\* there to run ("raised")
embed_metadata(exists, mux) ==
    IF ~exists THEN "skipped"
    ELSE IF mux = "ok" THEN "embedded"
    ELSE IF mux = "failed_with_output" THEN "replaced"
    ELSE "raised"

\* download_tiktok_video(url, output_folder, failed_urls): what it returns
\* ("metadata", "None", or "raised" when embed_metadata raises), whether it
\* appended url to failed_urls, and what happened to the embedding
download_tiktok_video(info, dl, exists, mux) ==
    IF ~get_video_info(info)
    THEN [returns |-> "None", failed |-> TRUE, info |-> "failed", dl |-> "not run",
          embed |-> "not run"]
    ELSE IF dl # "ok"
    THEN [returns |-> "None", failed |-> TRUE, info |-> "ok", dl |-> "failed",
          embed |-> "not run"]
    ELSE LET e == embed_metadata(exists, mux) IN
         [returns |-> IF e = "raised" THEN "raised" ELSE "metadata",
          failed |-> FALSE, info |-> "ok", dl |-> "ok", embed |-> e]

\* if metadata: append video_id to downloaded_videos.txt
ledger_append(ledger, video_id, returns) ==
    IF returns = "metadata" THEN Append(ledger, video_id) ELSE ledger

\* if failed_urls: write failed_videos.txt anew
write_failed_file(file, failed_urls) ==
    IF failed_urls # << >> THEN failed_urls ELSE file

GuiOff ==
    /\ app = "off" /\ ctl = "idle" /\ runs = 0 /\ clock = 0
    /\ db_schema = "none" /\ db_rows = << >>
    /\ selected_interval = InitialInterval
    /\ auto_update_timer = NoTimer /\ orphan_timers = << >>
    /\ refresh_table_timer = FALSE /\ deferred_init = FALSE
    /\ auto_update_actions = [i \in Intervals |-> FALSE]
    /\ profile_table = << >> /\ update_buttons = << >>
    /\ update_queue = << >> /\ current_worker = NoWorker
    /\ url_input = "" /\ download_button = FALSE
    /\ active_threads = << >> /\ video_signals = << >> /\ pending_slot = << >>
    /\ enqueued = << >> /\ dispatched = << >> /\ completed = << >>
    /\ sweeps = 0 /\ closed_interval = -1

\* the ledgers, folders and failed-items files a sweep may find
SeedLedgers == { << >>, << 1 >>, << 1, 2 >> }
SeedFolders ==
    { {},
      { File({1}, "valid", TRUE, TRUE) },
      { File({1}, "invalid", TRUE, TRUE), File({2}, "none", TRUE, TRUE) },
      \* a subfolder named like the video 1, and a file of video 2 that is
      \* no .mp4
      { File({1}, "valid", TRUE, FALSE), File({2}, "valid", FALSE, TRUE) } }
SeedFailedFiles == { << >>, << url_of(1), url_of(2) >> }

\* the listing holds the items 1..n
Listing(n) == [i \in 1..n |-> i]

InitSweep ==
    /\ GuiOff
    /\ sw_pc = "start"
    /\ sw_videos = << >>
    /\ sw_idx = 0
    /\ sw_existing = {}
    /\ sw_failed_urls = << >>
    /\ sw_log = << >>
    /\ history_file \in SeedLedgers
    /\ sw_history0 = history_file
    /\ folder \in SeedFolders
    /\ failed_urls_file \in SeedFailedFiles

\* lines 150-190: the folder and file names, existing_videos, the listing
\* command: a non-zero exit returns at once, a missing yt-dlp raises
sweep_start ==
    /\ sw_pc = "start"
    /\ sw_existing' = reconcile(history_file, folder)
    /\ \/ \E n \in 0..MaxItems :
            /\ sw_videos' = Listing(n)
            /\ sw_pc' = "loop"
       \/ /\ sw_videos' = sw_videos
          /\ sw_pc' \in {"list_failed", "raised"}
    /\ UNCHANGED << guiVars, sw_idx, sw_failed_urls, history_file, sw_history0,
                    failed_urls_file, folder, sw_log >>

\* lines 193-205: one iteration of the loop over the listing
sweep_item ==
    /\ sw_pc = "loop"
    /\ sw_idx < Len(sw_videos)
    /\ sw_idx' = sw_idx + 1
    /\ LET video_id == sw_videos[sw_idx + 1] IN
        IF video_id \in sw_existing
        THEN /\ sw_log' = Append(sw_log, [id |-> video_id, returns |-> "skipped",
                                          info |-> "not run", dl |-> "not run",
                                          embed |-> "not run"])
             /\ UNCHANGED << sw_pc, sw_failed_urls, history_file, folder >>
        ELSE \E info \in {"ok", "failed"}, dl \in {"ok", "failed"},
               exists \in BOOLEAN,
               mux \in {"ok", "failed_with_output", "failed_without_output"} :
             LET r == download_tiktok_video(info, dl, exists, mux) IN
             /\ sw_log' = Append(sw_log, [id |-> video_id, returns |-> r.returns,
                                          info |-> r.info, dl |-> r.dl,
                                          embed |-> r.embed])
             /\ sw_failed_urls' = IF r.failed
                                  THEN Append(sw_failed_urls, url_of(video_id))
                                  ELSE sw_failed_urls
             /\ history_file' = ledger_append(history_file, video_id, r.returns)
             \* the downloaded file, when it is where the command was told
             /\ folder' = IF r.dl = "ok" /\ r.embed # "skipped"
                          THEN folder \cup { File({video_id}, "valid", TRUE, TRUE) }
                          ELSE folder
             /\ sw_pc' = IF r.returns = "raised" THEN "raised" ELSE "loop"
    /\ UNCHANGED << guiVars, sw_videos, sw_existing, sw_history0, failed_urls_file >>

\* lines 207-210: the end of the sweep
sweep_finish ==
    /\ sw_pc = "loop"
    /\ sw_idx = Len(sw_videos)
    /\ failed_urls_file' = write_failed_file(failed_urls_file, sw_failed_urls)
    /\ sw_pc' = "done"
    /\ UNCHANGED << guiVars, sw_videos, sw_idx, sw_existing, sw_failed_urls,
                    history_file, sw_history0, folder, sw_log >>

NextSweep ==
    \/ sweep_start
    \/ sweep_item
    \/ sweep_finish

SpecSweep == InitSweep /\ [][NextSweep]_vars


(***************************************************************************)
(* Properties.                                                             *)
(***************************************************************************)
Last(q) == q[Len(q)]

\* jobs dispatched and not yet completed
InFlight == Len(dispatched) - Len(completed)

Statuses(table) == [r \in DOMAIN table |-> table[r].status]

\* a step of update_profile, of on_update_finished, of a dispatch
EnqueueStep == Len(enqueued') = Len(enqueued) + 1
CompleteStep == Len(completed') = Len(completed) + 1
DispatchStep == Len(dispatched') > Len(dispatched)

\* C1 -- Single in-flight slot: at most one queued job is in flight, and the
\* in-flight marker is set exactly while one is; a worker is started only by
\* a process_queue that finds current_worker None (in update_profile) or just
\* cleared by on_update_finished, with a non-empty queue, one worker per call;
\* with a job in flight update_profile only appends to the queue (marker, row
\* statuses and dispatches unchanged), and with nothing pending
\* on_update_finished leaves the Runner idle; so while a job has not
\* completed nothing else is dispatched.
C1_SingleInFlight ==
    /\ [](/\ InFlight \in {0, 1}
          /\ InFlight = 1 <=> current_worker.state # "None")
    /\ [][DispatchStep =>
            /\ Len(dispatched') = Len(dispatched) + 1
            /\ current_worker'.state = "running"
            /\ current_worker'.profile_name = Last(dispatched')
            /\ \/ current_worker.state = "None" /\ EnqueueStep
               \/ /\ current_worker.state = "emitted" /\ CompleteStep
                  /\ update_queue # << >>]_vars
    /\ [][(EnqueueStep /\ current_worker.state # "None") =>
            /\ current_worker' = current_worker
            /\ dispatched' = dispatched
            /\ update_queue' = Append(update_queue, Last(enqueued'))
            /\ Statuses(profile_table') = Statuses(profile_table)]_vars
    /\ [][(CompleteStep /\ update_queue = << >>) =>
            /\ current_worker' = NoWorker
            /\ update_queue' = << >>
            /\ dispatched' = dispatched]_vars

\* a job is in flight with two more requests pending behind it
C1_Witness ==
    /\ app = "running"
    /\ current_worker.state = "running"
    /\ Len(update_queue) = 2
    /\ InFlight = 1

StoreRow(name) ==
    db_rows[CHOOSE i \in DOMAIN db_rows : db_rows[i].profile_name = name]

\* C2 -- FIFO service order: the names dispatched are, in order, the first of
\* the names enqueued, the pending queue is the rest of them, the jobs
\* complete in the order they were dispatched and each completes before the
\* next is dispatched; a completion stores status "Updated" and the
\* timestamp the worker took, the time it finished, for the profile.
C2_FifoOrder ==
    /\ [](/\ Len(dispatched) <= Len(enqueued)
          /\ dispatched = SubSeq(enqueued, 1, Len(dispatched))
          /\ update_queue = SubSeq(enqueued, Len(dispatched) + 1, Len(enqueued))
          /\ Len(completed) <= Len(dispatched)
          /\ completed = SubSeq(dispatched, 1, Len(completed))
          /\ Len(dispatched) <= Len(completed) + 1)
    /\ [][CompleteStep =>
            /\ Last(completed') = current_worker.profile_name
            /\ current_worker.profile_name \in Names(db_rows')
            /\ \A i \in DOMAIN db_rows' :
                db_rows'[i].profile_name = current_worker.profile_name =>
                    /\ db_rows'[i].status = "Updated"
                    /\ db_rows'[i].last_updated = current_worker.last_updated]_vars
    /\ [][(current_worker.state = "running" /\ current_worker'.state = "emitted") =>
            current_worker'.last_updated = clock]_vars

\* carol, alice, bob were enqueued in that order; carol and alice have
\* completed, with the new timestamp stored, and bob is being served
C2_Witness ==
    /\ enqueued = << "carol", "alice", "bob" >>
    /\ completed = << "carol", "alice" >>
    /\ current_worker.profile_name = "bob"
    /\ current_worker.state = "running"
    /\ clock = 1
    /\ StoreRow("carol").last_updated = 1
    /\ StoreRow("carol").status = "Updated"

\* C3 -- Queue-position label: the label update_profile puts on the
\* profile's button is "In queue (k)" with k the request's 1-based position
\* among the requests pending or in flight at that moment.
C3_QueuePositionLabel ==
    [][EnqueueStep =>
        LET name == Last(enqueued') IN
        name \in DOMAIN update_buttons' =>
            update_buttons'[name].text =
                InQueueText(Outstanding(update_queue, current_worker) + 1)]_vars

\* the profile names of the store, in store order
StoreNames == [i \in DOMAIN db_rows |-> db_rows[i].profile_name]

\* C4 -- Full sweep: every call of update_all_profiles enqueues every
\* profile name of the store, one request each, in store order.
C4_FullSweep ==
    [][sweeps' = sweeps + 1 => enqueued' = enqueued \o StoreNames]_vars

\* load_auto_update_interval in a process just started: the interval it applies
load_auto_update_interval(rows) ==
    LET result == sql_select_interval(rows) IN
    IF result # << >> THEN result[1] ELSE InitialInterval

\* C5 -- Interval round-trip: after set_auto_update(X), loading
\* GlobalSettings yields X (selected_interval is the X of the latest call).
C5_IntervalRoundTrip ==
    app = "running" => load_auto_update_interval(db_rows) = selected_interval

\* exactly one auto-update timer runs, with period X, when X > 0; none when X = 0
TimerRunsWith(timer, orphans, X) ==
    /\ orphans = << >>
    /\ timer.active <=> X > 0
    /\ timer.active => timer.period = X

\* C6 -- Restart resumes the scheduler: when the process was closed with
\* interval X selected, the next startup, once _initialize_auto_update has
\* run, has exactly one timer running with period X (none when X = 0).
C6_RestartResumes ==
    [][(deferred_init /\ ~deferred_init' /\ closed_interval >= 0) =>
        TimerRunsWith(auto_update_timer', orphan_timers', closed_interval)]_vars

\* C7 -- Single scheduler timer: between handlers of a running process no
\* timer runs besides the one self.auto_update_timer refers to, that one runs
\* exactly when the interval of the latest set_auto_update is > 0, and its
\* period is that interval.
C7_SingleTimer ==
    (app = "running" /\ ctl = "idle") =>
        TimerRunsWith(auto_update_timer, orphan_timers, selected_interval)

\* the interval was set to a positive value, written to the store, and then
\* changed to another one: the timer of the first is stopped, one is running
C7_Witness ==
    /\ app = "running" /\ ctl = "idle" /\ ~deferred_init
    /\ runs = 2
    /\ closed_interval = 1800000
    /\ selected_interval = 3600000
    /\ auto_update_timer.active
    /\ auto_update_timer.period = 3600000

\* C8 -- Graceful shutdown: when the close is accepted no recurring timer
\* (auto-update, table refresh) is running and no background worker
\* (the DownloadWorker, a VideoDownloadWorker) is still running.
C8_GracefulShutdown ==
    app = "closed" =>
        /\ ~auto_update_timer.active
        /\ orphan_timers = << >>
        /\ ~refresh_table_timer
        /\ current_worker.state # "running"
        /\ AllFinished

\* C9 -- Ledger soundness: an identifier is appended to downloaded_videos.txt
\* only for an item whose download command succeeded and whose metadata
\* embedding fully succeeded.
C9_LedgerSoundness ==
    [][Len(history_file') > Len(history_file) =>
        LET e == Last(sw_log') IN
        /\ e.id = Last(history_file')
        /\ e.dl = "ok"
        /\ e.embed = "embedded"]_vars

ItemFailed(e) == e.info = "failed" \/ e.dl = "failed"
ItemSucceeded(e) == e.info = "ok" /\ e.dl = "ok"
IdsOf(log) == [i \in DOMAIN log |-> log[i].id]
UrlsOf(log) == [i \in DOMAIN log |-> url_of(log[i].id)]

\* C10 -- Extraction/download failure handling: the failed list holds, once
\* each and in order, the URLs of the items whose extraction or download
\* command failed; such an item adds nothing to the ledger; every listed item
\* is attempted at most once, in listing order; and at the end of a sweep
\* that started with an empty ledger, the ledger holds
\* exactly the identifiers of the items that succeeded and failed_videos.txt
\* exactly the failed URLs.
C10_FailureHandling ==
    /\ [](/\ sw_failed_urls = UrlsOf(SelectSeq(sw_log, ItemFailed))
          /\ Len(sw_log) = sw_idx
          /\ IdsOf(sw_log) = SubSeq(sw_videos, 1, sw_idx))
    /\ [][(sw_idx' = sw_idx + 1 /\ ItemFailed(Last(sw_log'))) =>
            /\ history_file' = history_file
            /\ sw_failed_urls' = Append(sw_failed_urls, url_of(sw_videos[sw_idx']))]_vars
    /\ []((sw_pc = "done" /\ sw_history0 = << >>) =>
            /\ history_file = IdsOf(SelectSeq(sw_log, ItemSucceeded))
            /\ failed_urls_file = UrlsOf(SelectSeq(sw_log, ItemFailed)))

\* C11 -- No item-level failure aborts a sweep: whatever happens to an item
\* (extraction, download or metadata muxing fails), download_tiktok_profile
\* goes on with the loop over the listing, so that it reaches its end and
\* returns normally.
C11_NoItemAbortsSweep ==
    [][sw_idx' = sw_idx + 1 => sw_pc' = "loop"]_vars

\* C12 -- Failed-items file reflects the current run: after a completed
\* sweep failed_videos.txt holds exactly the URLs that failed in that sweep,
\* none when none failed.
C12_FailedFileOfThisRun ==
    [](sw_pc = "done" => failed_urls_file = sw_failed_urls)

LedgerIds(ledger) == { ledger[k] : k \in DOMAIN ledger }
HasValidFile(id, files) ==
    \E f \in files : f.isfile /\ f.mp4 /\ id \in f.ids /\ f.date = "valid"

\* C13 -- Ledger reconciliation: when the loop over the listing starts, the
\* identifiers treated as already downloaded are exactly the ledger
\* identifiers for which the top level of the profile folder holds an .mp4
\* file whose name contains the identifier and a valid date token; the set
\* stays as it is during the sweep; a listed item is left out when it is in
\* the set and is downloaded otherwise.
C13_LedgerReconciliation ==
    /\ []((sw_pc = "loop" /\ sw_idx = 0) =>
            sw_existing = { id \in LedgerIds(sw_history0) : HasValidFile(id, folder) })
    /\ [][sw_pc = "loop" => sw_existing' = sw_existing]_vars
    /\ [][sw_idx' = sw_idx + 1 =>
            LET e == Last(sw_log') IN
            /\ e.id \in sw_existing => e.returns = "skipped" /\ e.info = "not run"
            /\ e.id \notin sw_existing => e.returns # "skipped" /\ e.info # "not run"]_vars

\* the ledger names 1 and 2, the folder holds a dated file of 1 only: the
\* sweep left out 1 and downloaded 2 again
C13_Witness ==
    /\ sw_pc = "done"
    /\ sw_history0 = << 1, 2 >>
    /\ Len(sw_log) >= 2
    /\ sw_log[1].returns = "skipped"
    /\ sw_log[2].returns = "metadata"

\* C14 -- Profile creation: when the slots of a VideoDownloadWorker's
\* finished(U, t, "Downloaded") have run for an uploader U that had no row in
\* the store, the store has a row for U with last_updated t and status
\* "Downloaded", and the table shows a row for U.
C14_ProfileCreation ==
    [][(ctl = "cleanup_wait" /\ ctl' = "idle"
            /\ pending_slot[1].uploader \notin Names(db_rows)) =>
        LET sig == pending_slot[1] IN
        /\ \E i \in DOMAIN db_rows' :
            /\ db_rows'[i].profile_name = sig.uploader
            /\ db_rows'[i].last_updated = sig.last_updated
            /\ db_rows'[i].status = "Downloaded"
        /\ find_row_by_profile_name(profile_table', sig.uploader) # 0]_vars

AliveVideoWorkers ==
    Cardinality({ i \in DOMAIN active_threads : active_threads[i] = "running" })
AliveDownloadWorkers == IF current_worker.state = "running" THEN 1 ELSE 0

\* C15 -- Bounded background contexts: at most one VideoDownloadWorker and
\* at most one DownloadWorker are alive, hence at most two workers in all.
C15_BoundedWorkers ==
    [](/\ AliveVideoWorkers <= 1
       /\ AliveDownloadWorkers <= 1
       /\ AliveVideoWorkers + AliveDownloadWorkers <= 2)

\* C16 -- Exactly-once completion: no dispatched job is left without its
\* completion (its worker never ends without emitting finished), the
\* completions are, in order, the first of the dispatches (none twice, none
\* for a job not dispatched), and each on_update_finished is for the job in
\* flight, whose signal it consumes.
C16_ExactlyOnceCompletion ==
    /\ [](current_worker.state # "raised")
    /\ [](/\ Len(completed) <= Len(dispatched)
          /\ completed = SubSeq(dispatched, 1, Len(completed)))
    /\ [][CompleteStep =>
            /\ current_worker.state = "emitted"
            /\ completed' = Append(completed, current_worker.profile_name)
            /\ current_worker'.state \in {"None", "running"}]_vars

PendingOrInFlight(n) ==
    \/ \E i \in DOMAIN update_queue : update_queue[i] = n
    \/ current_worker.state # "None" /\ current_worker.profile_name = n

\* C17 -- Trigger-control state: between handlers of the running program a
\* profile's button is disabled exactly when a request for the profile is
\* pending or in flight; on_update_finished for a profile enables its button
\* and sets its label to "Update".
C17_TriggerControl ==
    /\ []((app = "running" /\ ctl = "idle") =>
            \A n \in DOMAIN update_buttons :
                ~update_buttons[n].enabled <=> PendingOrInFlight(n))
    /\ [][CompleteStep =>
            LET n == Last(completed') IN
            n \in DOMAIN update_buttons' =>
                /\ update_buttons'[n].enabled
                /\ update_buttons'[n].text = UpdateText]_vars

\* alice has completed and her button is enabled again; bob is in flight and
\* carol pending, their buttons disabled
C17_Witness ==
    /\ app = "running" /\ ctl = "idle"
    /\ completed = << "alice" >>
    /\ current_worker.profile_name = "bob" /\ current_worker.state = "running"
    /\ update_queue = << "carol" >>
    /\ update_buttons["alice"].enabled
    /\ update_buttons["alice"].text = UpdateText
    /\ ~update_buttons["bob"].enabled
    /\ ~update_buttons["carol"].enabled

\* C18 -- Interval selection display: once set_auto_update(X) has run, as it
\* has in every state of the running program, exactly one option of the
\* auto-update menu is checked, the one whose interval is X.
C18_OneOptionChecked ==
    app = "running" =>
        /\ Cardinality({ i \in Intervals : auto_update_actions[i] }) = 1
        /\ auto_update_actions[selected_interval]

\* "Every 6 hours" was selected and then "Off": only "Off" is checked
C18_Witness ==
    /\ app = "running" /\ ctl = "idle" /\ ~deferred_init
    /\ runs = 2
    /\ closed_interval = 21600000
    /\ selected_interval = 0
    /\ auto_update_actions[0]
    /\ ~auto_update_actions[21600000]

\* C19 -- No idle Runner with pending work: between handlers of the running
\* program, when no job is in flight the queue is empty; an
\* on_update_finished that finds a request pending starts the worker of the
\* head of the queue in the same handler.
C19_NoIdleRunnerWithWork ==
    /\ []((app = "running" /\ ctl = "idle") =>
            (current_worker.state = "None" => update_queue = << >>))
    /\ [][(CompleteStep /\ update_queue # << >>) =>
            /\ current_worker'.state = "running"
            /\ current_worker'.profile_name = Head(update_queue)
            /\ update_queue' = Tail(update_queue)
            /\ dispatched' = Append(dispatched, Head(update_queue))]_vars

\* a completion has started the next job and the queue is empty again
C19_Witness ==
    /\ app = "running"
    /\ Len(completed) = 1
    /\ Len(dispatched) = 2
    /\ current_worker.state = "running"
    /\ update_queue = << >>

RunnerIdle == current_worker = NoWorker /\ update_queue = << >>

\* C20 -- Queue drains: when every worker emits its completion and the
\* control thread handles the events posted to it, the k-th request enqueued
\* is eventually completed, and when no more requests are enqueued the Runner
\* ends up idle with an empty queue, for as long as the program runs (a
\* closed or aborted program completes nothing).
C20_QueueDrains ==
    /\ \A k \in 1..MaxEnqueues :
        (Len(enqueued) >= k) ~>
            ((Len(dispatched) >= k /\ Len(completed) >= k) \/ app # "running")
    /\ \A k \in 0..MaxEnqueues :
        <>[](Len(enqueued) = k) => <>[](RunnerIdle \/ app # "running")

\* three requests were enqueued and all three have completed: the Runner is
\* idle, the queue empty, the program still running
C20_Witness ==
    /\ app = "running" /\ ctl = "idle"
    /\ Len(enqueued) = 3
    /\ Len(completed) = 3
    /\ RunnerIdle

\* what the control thread owns: the store, the pending queue, the in-flight
\* marker, the table rows and the buttons
ControlState ==
    << db_rows, update_queue, current_worker.state = "None",
       current_worker.profile_name, profile_table, update_buttons >>

\* C21 -- Control-thread confinement: a step of a worker thread
\* (DownloadWorker.run, VideoDownloadWorker.run) writes none of the store, the
\* queue, the in-flight marker, the table rows and the buttons; and while a
\* handler is blocked in a wait() no other handler writes them, so the
\* writes of two handlers never interleave.
C21_ControlThreadConfinement ==
    /\ [][(DownloadWorker_run \/ VideoDownloadWorker_run) =>
            ControlState' = ControlState]_vars
    /\ [][(ctl # "idle" /\ ctl' = ctl) => ControlState' = ControlState]_vars

\* both workers have finished and emitted and neither slot has run yet: the
\* store and the table are as the handlers left them
C21_Witness ==
    /\ app = "running" /\ ctl = "idle"
    /\ current_worker.state = "emitted"
    /\ current_worker.profile_name = "alice"
    /\ video_signals # << >>
    /\ video_signals[1].uploader = "alice"
    /\ StoreRow("alice").status = "Updated"
    /\ profile_table[1].status = "Being Updated..."

TableNames(table) == [r \in DOMAIN table |-> table[r].name]

\* C22 -- Cosmetic refresh: a refresh_table leaves the queue, the in-flight
\* worker, the store, the buttons, and the name and status cell of every
\* table row as they are, and adds or removes no row; only "Last Update"
\* cells change.
C22_CosmeticRefresh ==
    [][refresh_table =>
        /\ UNCHANGED << update_queue, current_worker, db_schema, db_rows,
                        update_buttons >>
        /\ TableNames(profile_table') = TableNames(profile_table)
        /\ Statuses(profile_table') = Statuses(profile_table)]_vars

\* alice's update completed in the second the program started and a second
\* later a refresh has turned her "Just now" into "1 second ago", while bob
\* is being updated
C22_Witness ==
    /\ app = "running"
    /\ clock = 1
    /\ completed = << "alice" >>
    /\ StoreRow("alice").last_updated = 0
    /\ profile_table[1].name = "alice"
    /\ profile_table[1].last = relative_time(0, 1)
    /\ profile_table[1].status = "Updated"
    /\ current_worker.profile_name = "bob"
    /\ profile_table[2].status = "Being Updated..."

\* the same job stays in flight over the step
StaysInFlight ==
    /\ current_worker.state # "None"
    /\ current_worker'.state # "None"
    /\ dispatched' = dispatched
    /\ completed' = completed

\* C23 -- In-flight status is stable: while the job of profile P is in
\* flight, P's table row shows "Being Updated...", and no step that leaves
\* the job in flight changes the status P's row shows or the status the
\* store holds for P.
C23_InFlightStatusStable ==
    /\ []((app = "running" /\ current_worker.state # "None") =>
            \A r \in DOMAIN profile_table :
                r = find_row_by_profile_name(profile_table, current_worker.profile_name)
                    => profile_table[r].status = "Being Updated...")
    /\ [][StaysInFlight =>
            LET P == current_worker.profile_name IN
            /\ \A r \in DOMAIN profile_table :
                    profile_table[r].name = P =>
                        profile_table'[r].status = profile_table[r].status
            /\ \A i \in DOMAIN db_rows :
                    db_rows[i].profile_name = P =>
                        db_rows'[i].status = db_rows[i].status]_vars

\* C24 -- Ad-hoc download always returns control: once download_video has
\* started a worker, on_video_download_finished eventually runs and empties
\* active_threads, whether the download succeeded or failed, for as long as
\* the program runs.
C24_DownloadReturnsControl ==
    (app = "running" /\ active_threads # << >>) ~>
        (active_threads = << >> \/ app # "running")

====
